---- MODULE Spec2Model ----
(***************************************************************************)
(* A model of the agent execution context (steamship/agents/schema/        *)
(* context.py) and of the transports that drive it: the Telegram webhook   *)
(* (agents/mixins/transports/telegram.py, experimental/package_starters/   *)
(* telegram_bot.py) and the web widget (agents/mixins/transports/          *)
(* steamship_widget.py).                                                   *)
(*                                                                         *)
(* Six specifications share the state:                                     *)
(*   SpecContext    AgentContext.get_or_create and the operations on the   *)
(*                  contexts it returns;                                   *)
(*   Spec           one Telegram webhook request after the other;          *)
(*   SpecWidget     web widget requests on one transport object;           *)
(*   SpecRequests   Telegram webhook requests followed by web widget       *)
(*                  requests, on one agent service;                        *)
(*   SpecTransport  the Telegram transport outside a webhook request:      *)
(*                  __init__, instance_init, connect_telegram, _send;      *)
(*   SpecPlugin     plugin classes are instantiated and used               *)
(*                  (plugin/corpus_importer.py, tests/plugin).             *)
(***************************************************************************)
EXTENDS Integers, Sequences, FiniteSets, TLC

VARIABLES
    files,      \* the persistent chat logs: a sequence of [keys, msgs]; a file's id is its index
    caches,     \* the persistent caches: <<kind, keys>> -> [exists, entries: fingerprint -> result]
    ctxs,       \* the AgentContext objects created so far, in creation order
    heap,       \* the dict/list objects the contexts refer to: object id -> sequence of entries
    tg,         \* the locals of the Telegram handler that is running (telegram_respond / respond)
    sent,       \* the calls made to the provider while the current Telegram request is handled
    getFileCalls, \* the getFile lookups made while the current Telegram request is handled
    telegram,   \* the TelegramTransport object: [config_bot_token, bot_token, api_root]
    store,      \* the KeyValueStore "_telegram_config": key -> value
    tp,         \* the call of instance_init, connect_telegram or _send made on the transport
    wg,         \* the locals of the widget requests in flight (answer), one record per request
    message_output, \* SteamshipWidgetTransport.message_output
    nreq,       \* the number of requests received so far
    plugins     \* the plugin objects instantiated so far and the last operation on a plugin

vars == <<files, caches, ctxs, heap, tg, sent, getFileCalls, telegram, store, tp, wg,
          message_output, nreq, plugins>>
tgVars == <<tg, sent, getFileCalls, telegram, store, tp>>
wgVars == <<wg, message_output>>

-----------------------------------------------------------------------------
(* Bounds of the model.                                                    *)

MaxOps == 4          \* operations of SpecContext: contexts created plus writes made through
                     \* them (messages, cache entries, entries of the in-memory containers)
MaxRequests == 2     \* webhook requests handled
MaxEmits == 1        \* emission events of one agent run
MaxWidgetWork == 13  \* steps taken by the web widget requests, all together
MaxPlugins == 3      \* plugin objects instantiated

-----------------------------------------------------------------------------
(* Python values.  A value carries its type, so that int, str and None are *)
(* different values and str()/int() are conversions.                       *)

None == [t |-> "none", v |-> ""]
PyInt(d) == [t |-> "int", v |-> d]
PyStr(s) == [t |-> "str", v |-> s]

Digits == {"7", "8"}

\* isinstance(x, int)
IsInt(x) == x.t = "int"

\* str(x)
Str(x) == IF x.t = "none" THEN PyStr("None") ELSE PyStr(x.v)

\* int(x) succeeds for an int and for a string of digits; it raises TypeError for
\* None and ValueError for any other string.
ToIntOk(x) == x.t = "int" \/ (x.t = "str" /\ x.v \in Digits)
ToInt(x) == PyInt(x.v)

-----------------------------------------------------------------------------
(* The persistent stores behind ChatHistory, ActionCache and LLMCache.     *)

Keys == {"7", "8"}                          \* the conversations of SpecContext
AllKeys == Keys \cup {"abc", "default"}     \* and those of the web widget
Texts == {"hello"}
Fingerprints == {"fp"}
CacheResults == {"r1"}
CacheKinds == {"action", "llm"}
Miss == "miss"

NoEntries == [f \in Fingerprints |-> Miss]
AbsentCache == [exists |-> FALSE, entries |-> NoEntries]
EmptyCache == [exists |-> TRUE, entries |-> NoEntries]

\* The files whose context keys are k.
FilesFor(fs, k) == {i \in 1..Len(fs) : fs[i].keys = k}

\* ChatHistory.get_or_create: the log of k, created empty when there is none.
ChatHistory_get_or_create(fs, k) ==
    IF FilesFor(fs, k) # {}
    THEN [files |-> fs, id |-> CHOOSE i \in FilesFor(fs, k) : \A j \in FilesFor(fs, k) : i <= j]
    ELSE [files |-> Append(fs, [keys |-> k, msgs |-> <<>>]), id |-> Len(fs) + 1]

\* ChatHistory.append_user_message
ChatHistory_append_user_message(fs, id, text) ==
    [fs EXCEPT ![id].msgs = Append(@, [role |-> "user", text |-> text])]

\* ActionCache.get_or_create / LLMCache.get_or_create: the cache of k, created
\* empty when there is none.  The handle of a cache is <<kind, k>>.
Cache_get_or_create(cs, kind, k) ==
    IF ~cs[<<kind, k>>].exists THEN [cs EXCEPT ![<<kind, k>>] = EmptyCache] ELSE cs

\* cache.update(fingerprint, result), cache.lookup(fingerprint)
Cache_update(cs, handle, fp, r) == [cs EXCEPT ![handle].entries[fp] = r]
Cache_lookup(cs, handle, fp) == cs[handle].entries[fp]

-----------------------------------------------------------------------------
(* AgentContext (context.py).                                              *)

NoCache == <<"none", "">>

\* AgentContext.__init__: three new, empty containers.
AgentContext_init_shared(h) ==
    [heap |-> IF Len(h) = 0 THEN <<<<>>, <<>>, <<>>>> ELSE h,
     metadata |-> 1, completed_steps |-> 2, emit_funcs |-> 3]

AgentContext_init(h) ==
    [heap |-> h \o <<<<>>, <<>>, <<>>>>,
     metadata |-> Len(h) + 1, completed_steps |-> Len(h) + 2, emit_funcs |-> Len(h) + 3]

\* The chat history a new context gets (context.py line 66).
Context_history_recreated(fs, k) ==
    LET r == ChatHistory_get_or_create(fs, k)
    IN  [files |-> [r.files EXCEPT ![r.id].msgs = <<>>], id |-> r.id]

Context_history(fs, k) == ChatHistory_get_or_create(fs, k)

\* The action cache a new context gets (context.py lines 71-76).
Context_action_cache_always(k, use_action_cache) == <<"action", k>>

Context_action_cache(k, use_action_cache) ==
    IF use_action_cache THEN <<"action", k>> ELSE NoCache

\* The LLM cache a new context gets (context.py lines 78-81).
Context_llm_cache_shared(k, use_llm_cache) ==
    IF use_llm_cache THEN <<"llm", "7">> ELSE NoCache

Context_llm_cache(k, use_llm_cache) ==
    IF use_llm_cache THEN <<"llm", k>> ELSE NoCache

\* The caches after the context's caches are resolved.
Context_caches(cs, k, use_llm_cache, use_action_cache) ==
    LET ac == Context_action_cache(k, use_action_cache)
        lc == Context_llm_cache(k, use_llm_cache)
        c1 == IF ac # NoCache THEN Cache_get_or_create(cs, ac[1], ac[2]) ELSE cs
    IN  IF lc # NoCache THEN Cache_get_or_create(c1, lc[1], lc[2]) ELSE c1

\* The number of entries the caches of k hold.
CacheEntries(cs, k) ==
    Cardinality({x \in CacheKinds \X Fingerprints : cs[<<x[1], k>>].entries[x[2]] # Miss})

\* The number of messages the log of k holds (0 when there is no log).
LogEntries(fs, k) ==
    IF FilesFor(fs, k) = {} THEN 0 ELSE Len(fs[CHOOSE i \in FilesFor(fs, k) : TRUE].msgs)

\* AgentContext.get_or_create: the new context and the stores after the call.
\* The fields flags and found are not attributes of the object: they record the
\* arguments of the call and what the stores held for k when it was made.
AgentContext_get_or_create(fs, cs, h, k, use_llm_cache, use_action_cache) ==
    LET hist == Context_history(fs, k)
        obj == AgentContext_init(h)
    IN  [files |-> hist.files,
         caches |-> Context_caches(cs, k, use_llm_cache, use_action_cache),
         heap |-> obj.heap,
         context |-> [keys |-> k,
                      flags |-> <<use_llm_cache, use_action_cache>>,
                      found |-> <<LogEntries(fs, k), CacheEntries(cs, k)>>,
                      chat_history |-> hist.id,
                      action_cache |-> Context_action_cache(k, use_action_cache),
                      llm_cache |-> Context_llm_cache(k, use_llm_cache),
                      metadata |-> obj.metadata,
                      completed_steps |-> obj.completed_steps,
                      emit_funcs |-> obj.emit_funcs]]

\* AgentContext.id: the id of the chat history's file.
AgentContext_id_of_object(cs, i) == i

AgentContext_id(cs, i) == cs[i].chat_history

-----------------------------------------------------------------------------
(* The Telegram transport object and the handler's locals.                 *)

ApiBase == "https://api.telegram.org/bot"
ConfigBotToken == "TOKEN"

\* The key-value store "_telegram_config".  The value of "bot_token" is the
\* dict {"token": t}; get gives None for a key that was never set.  The field
\* overwrote is no part of the value: it records that the value replaced a
\* different one.
StoreKeys == {"bot_token"}
NoValue == [is_set |-> FALSE, token |-> None, overwrote |-> FALSE]
EmptyStore == [k \in StoreKeys |-> NoValue]
KeyValueStore_set(st, key, token) ==
    [st EXCEPT ![key] = [is_set |-> TRUE, token |-> token,
                         overwrote |-> st[key].is_set /\ st[key].token # token]]
KeyValueStore_get(st, key) == st[key]

\* (self.store.get("bot_token") or {}).get("token")
StoredToken(st) ==
    LET value == KeyValueStore_get(st, "bot_token")
    IN  IF value.is_set THEN value.token ELSE None

\* A value that Python takes as true: not None and not the empty string.
Truthy(x) == x.t # "none" /\ x.v # ""

\* f"{config.api_base}{bot_token}"
ApiRoot(bot_token) == ApiBase \o Str(bot_token).v

\* A constructor that takes the configured token only.
TelegramTransport_init_config_only(config_bot_token, stored_token) ==
    [config_bot_token |-> config_bot_token, bot_token |-> PyStr(config_bot_token),
     api_root |-> ApiRoot(PyStr(config_bot_token))]

\* TelegramTransport.__init__: self.bot_token = config.bot_token or bot_token,
\* the configured token, else the stored one.
TelegramTransport_init(config_bot_token, stored_token) ==
    LET t == IF config_bot_token # "" THEN PyStr(config_bot_token) ELSE stored_token
    IN  [config_bot_token |-> config_bot_token, bot_token |-> t, api_root |-> ApiRoot(t)]

\* No call is being made on the transport.  op is the method called, pc its
\* position ("idle", "init": instance_init is to run, "done"), arg the token
\* given to connect_telegram, result what the method returned, raised whether
\* an exception left it, webhook the answers to the setWebhook calls of this
\* call with the API root each was made to, and blocks, outcomes and calls the
\* batch given to _send, the provider's answers and the calls made.
TpIdle ==
    [op |-> "", pc |-> "idle", arg |-> "", result |-> "", raised |-> FALSE, webhook |-> <<>>,
     blocks |-> <<>>, outcomes |-> <<>>, calls |-> <<>>, exc |-> ""]

\* An inbound message: Block(text, url) with its chat id and message id, or no
\* message (is_none).
NoBlock == [is_none |-> TRUE, text |-> None, url |-> None, chat_id |-> None, message_id |-> None]
InBlock(text, url, chat_id, message_id) ==
    [is_none |-> FALSE, text |-> text, url |-> url, chat_id |-> chat_id, message_id |-> message_id]

\* The keyword arguments of a webhook request.  message is "absent", "null"
\* (present, not a dict) or "dict"; chat likewise; voice and video_note hold the
\* file_id of the object, None when the object is absent.
BlankMessage ==
    [message |-> "absent", chat |-> "absent", chat_id |-> None, message_id |-> None,
     text |-> None, voice |-> None, video_note |-> None]

\* The handler's locals before the first request.  explicit_from is no local:
\* it is the number of provider calls made before self.send(response) ran.
TgIdle ==
    [pc |-> "idle", handler |-> "telegram_respond", kwargs |-> BlankMessage, chat_id |-> None,
     parsed |-> FALSE, incoming |-> NoBlock, context |-> 0, has_response |-> FALSE,
     response |-> <<>>, exc |-> "", emits |-> 0, ran |-> FALSE, result |-> "", files0 |-> <<>>,
     explicit_from |-> 0]

-----------------------------------------------------------------------------
(* Plugin services (plugin/corpus_importer.py, tests/plugin/               *)
(* test_service.py).  A class has base classes, the methods it declares    *)
(* abstract and the methods it defines.                                    *)

PluginClasses ==
    {"PluginService", "CorpusImporter", "BadPlugin", "ValidStringToStringPlugin",
     "TrainableTagger", "ValidTrainableStringToStringPlugin"}
PluginMethods ==
    {"run", "subclass_request_from_dict", "train", "get_training_parameters",
     "run_with_model", "get_model_class", "get_steamship_client"}

\* class PluginService(ABC, Generic[T, U]): run is abstract.
PluginService ==
    [bases |-> {}, abstract |-> {"run"}, defines |-> {}]

\* class CorpusImporter(PluginService[CorpusImportRequest, CorpusImportResponse], ABC)
CorpusImporter ==
    [bases |-> {"PluginService"}, abstract |-> {}, defines |-> {"subclass_request_from_dict"}]

\* class BadPlugin(PluginService): pass
BadPlugin ==
    [bases |-> {"PluginService"}, abstract |-> {}, defines |-> {}]

\* class ValidStringToStringPlugin(PluginService): def run(...)
ValidStringToStringPlugin ==
    [bases |-> {"PluginService"}, abstract |-> {}, defines |-> {"run"}]

\* class TrainableTagger: run is defined in terms of run_with_model; the model
\* class, the client, the training parameters and train are left to the subclass.
TrainableTagger ==
    [bases |-> {"PluginService"},
     abstract |-> {"run_with_model", "get_model_class", "get_steamship_client",
                   "train", "get_training_parameters"},
     defines |-> {"run"}]

\* class ValidTrainableStringToStringPlugin(TrainableTagger)
ValidTrainableStringToStringPlugin ==
    [bases |-> {"TrainableTagger"}, abstract |-> {},
     defines |-> {"get_model_class", "get_steamship_client", "run_with_model",
                  "get_training_parameters", "train"}]

ClassTable ==
    [c \in PluginClasses |->
        CASE c = "PluginService" -> PluginService
          [] c = "CorpusImporter" -> CorpusImporter
          [] c = "BadPlugin" -> BadPlugin
          [] c = "ValidStringToStringPlugin" -> ValidStringToStringPlugin
          [] c = "TrainableTagger" -> TrainableTagger
          [] OTHER -> ValidTrainableStringToStringPlugin]

\* The class and the classes it inherits from.
RECURSIVE Ancestors(_)
Ancestors(c) == {c} \cup UNION {Ancestors(b) : b \in ClassTable[c].bases}

\* The names an object of class c has: those its classes define or declare.
Attributes(c) ==
    UNION {ClassTable[a].defines \cup ClassTable[a].abstract : a \in Ancestors(c)}

\* A class machinery that lets every class be instantiated.
AbstractMethods_unenforced(c) == {}

\* c.__abstractmethods__: the methods declared abstract by c, and those
\* abstract in a base class that c does not define.
RECURSIVE AbstractMethods(_)
AbstractMethods(c) ==
    ClassTable[c].abstract
        \cup (UNION {AbstractMethods(b) : b \in ClassTable[c].bases} \ ClassTable[c].defines)

\* No operation on a plugin yet.  op is "instantiate", "run" or "hasattr", cls
\* the class, name the attribute asked for, raised whether the operation raised
\* and value what hasattr returned.
NoPluginOp == [op |-> "", cls |-> "", name |-> "", raised |-> FALSE, value |-> FALSE]

-----------------------------------------------------------------------------
(* The initial state: empty stores, no context, no request.                *)

Init ==
    /\ files = <<>>
    /\ caches = [h \in CacheKinds \X AllKeys |-> AbsentCache]
    /\ ctxs = <<>>
    /\ heap = <<>>
    /\ tg = TgIdle
    /\ sent = <<>>
    /\ getFileCalls = 0
    /\ store = EmptyStore
    /\ telegram = TelegramTransport_init(ConfigBotToken, StoredToken(store))
    /\ tp = TpIdle
    /\ wg = <<>>
    /\ message_output = [is_set |-> FALSE, blocks |-> <<>>, by |-> 0]
    /\ nreq = 0
    /\ plugins = [objs |-> <<>>, last |-> NoPluginOp]

------------------------------------------------------------------------
-----
(* SpecContext: contexts are resolved and used.                            *)

\* The number of entries written so far: to the containers, the logs and the caches.
Writes ==
    LET RECURSIVE HeapSum(_), FileSum(_)
        HeapSum(i) == IF i = 0 THEN 0 ELSE Len(heap[i]) + HeapSum(i - 1)
        FileSum(i) == IF i = 0 THEN 0 ELSE Len(files[i].msgs) + FileSum(i - 1)
    IN  HeapSum(Len(heap)) + FileSum(Len(files))
        + Cardinality({x \in (CacheKinds \X AllKeys) \X Fingerprints : caches[x[1]].entries[x[2]] # Miss})

\* context = AgentContext.get_or_create(client, k, use_llm_cache=..., use_action_cache=...)
CtxGetOrCreate(k, use_llm_cache, use_action_cache) ==
    /\ Len(ctxs) + Writes < MaxOps
    /\ LET r == AgentContext_get_or_create(files, caches, heap, k, use_llm_cache, use_action_cache)
       IN  /\ files' = r.files
           /\ caches' = r.caches
           /\ heap' = r.heap
           /\ ctxs' = Append(ctxs, r.context)
    /\ UNCHANGED <<tgVars, wgVars, nreq, plugins>>

\* ctxs[i].chat_history.append_user_message(text)
CtxAppendUserMessage(i, text) ==
    /\ Len(ctxs) + Writes < MaxOps
    /\ files' = ChatHistory_append_user_message(files, ctxs[i].chat_history, PyStr(text))
    /\ UNCHANGED <<caches, ctxs, heap, tgVars, wgVars, nreq, plugins>>

\* ctxs[i].action_cache.update(fp, r) / ctxs[i].llm_cache.update(fp, r)
CtxCacheUpdate(i, kind, fp, r) ==
    /\ LET handle == IF kind = "action" THEN ctxs[i].action_cache ELSE ctxs[i].llm_cache
       IN  /\ handle # NoCache
           /\ Len(ctxs) + Writes < MaxOps
           /\ Cache_lookup(caches, handle, fp) # r
           /\ caches' = Cache_update(caches, handle, fp, r)
    /\ UNCHANGED <<files, ctxs, heap, tgVars, wgVars, nreq, plugins>>

\* ctxs[i].emit_funcs.append(f), ctxs[i].completed_steps.append(a),
\* ctxs[i].metadata[key] = ...: an entry is added to one container of ctxs[i].
CtxAddEntry(i, field, e) ==
    /\ Len(ctxs) + Writes < MaxOps
    /\ LET ref == CASE field = "metadata" -> ctxs[i].metadata
                    [] field = "completed_steps" -> ctxs[i].completed_steps
                    [] OTHER -> ctxs[i].emit_funcs
       IN  heap' = [heap EXCEPT ![ref] = Append(@, e)]
    /\ UNCHANGED <<files, caches, ctxs, tgVars, wgVars, nreq, plugins>>

ContainerFields == {"metadata", "completed_steps", "emit_funcs"}

NextContext ==
    \/ \E k \in Keys, ul \in BOOLEAN, ua \in BOOLEAN : CtxGetOrCreate(k, ul, ua)
    \/ \E i \in 1..Len(ctxs), text \in Texts : CtxAppendUserMessage(i, text)
    \/ \E i \in 1..Len(ctxs), kind \in CacheKinds, fp \in Fingerprints, r \in CacheResults :
          CtxCacheUpdate(i, kind, fp, r)
    \/ \E i \in 1..Len(ctxs), field \in ContainerFields : CtxAddEntry(i, field, "x")

SpecContext == Init /\ [][NextContext]_vars

-----------------------------------------------------------------------------
(* Claims about AgentContext.get_or_create, checked under SpecContext.     *)

\* A step of get_or_create: one more context exists after it.
ContextCreated == Len(ctxs') = Len(ctxs) + 1

\* C6: get_or_create sets action_cache to the cache of the given context_keys
\* exactly when use_action_cache is true and llm_cache to the cache of the same
\* context_keys exactly when use_llm_cache is true; the flags act independently
\* and a disabled cache is left unset.
C6_CachesFollowFlags ==
    \A i \in 1..Len(ctxs) :
        LET c == ctxs[i]
        IN  /\ c.flags[2] => c.action_cache = <<"action", c.keys>> /\ caches[c.action_cache].exists
            /\ ~c.flags[2] => c.action_cache = NoCache
            /\ c.flags[1] => c.llm_cache = <<"llm", c.keys>> /\ caches[c.llm_cache].exists
            /\ ~c.flags[1] => c.llm_cache = NoCache

\* A context with only the LLM cache and a context with only the action cache.
C6_Witness ==
    /\ \E i \in 1..Len(ctxs) : ctxs[i].llm_cache # NoCache /\ ctxs[i].action_cache = NoCache
    /\ \E i \in 1..Len(ctxs) : ctxs[i].llm_cache = NoCache /\ ctxs[i].action_cache # NoCache

\* C7: get_or_create leaves the messages of every existing chat history and the
\* entries of every existing cache as they were.
C7_GetOrCreateKeepsContents ==
    [][ContextCreated =>
          /\ \A f \in 1..Len(files) : files'[f] = files[f]
          /\ \A h \in DOMAIN caches : caches[h].exists => caches'[h] = caches[h]]_vars

\* A context resolved for keys whose log and caches already held entries, and
\* the entries are still there.
C7_Witness ==
    \E i \in 1..Len(ctxs) :
        /\ ctxs[i].found[1] > 0
        /\ ctxs[i].found[2] > 0
        /\ LogEntries(files, ctxs[i].keys) >= ctxs[i].found[1]
        /\ CacheEntries(caches, ctxs[i].keys) >= ctxs[i].found[2]

\* C8: two contexts obtained for the same context_keys have the same id, and
\* there is exactly one chat log for those context_keys.
C8_SameKeysSameId ==
    \A i, j \in 1..Len(ctxs) :
        ctxs[i].keys = ctxs[j].keys =>
            /\ AgentContext_id(ctxs, i) = AgentContext_id(ctxs, j)
            /\ Cardinality(FilesFor(files, ctxs[i].keys)) = 1

\* Two contexts of one conversation with a context of another conversation
\* created between them.
C8_Witness ==
    /\ Len(ctxs) >= 3
    /\ ctxs[1].keys = ctxs[3].keys
    /\ ctxs[2].keys # ctxs[1].keys

\* What context i shows of its three containers.
ContainersOf(h, c) == <<h[c.metadata], h[c.completed_steps], h[c.emit_funcs]>>

\* C9: a context returned by get_or_create starts with an empty metadata bag,
\* an empty completed-steps list and an empty emit-callback list, and an entry
\* added to a container of one context shows in no other context.
C9_ContainersEmptyAndPrivate ==
    [][/\ ContextCreated =>
             ContainersOf(heap', ctxs'[Len(ctxs')]) = <<<<>>, <<>>, <<>>>>
       /\ \A i, j \in 1..Len(ctxs) :
             (i # j /\ ContainersOf(heap', ctxs'[i]) # ContainersOf(heap, ctxs[i]))
                 => ContainersOf(heap', ctxs'[j]) = ContainersOf(heap, ctxs[j])]_vars

\* A callback was added to the first context of a conversation, and a later
\* context of the same conversation has none.
C9_Witness ==
    \E i, j \in 1..Len(ctxs) :
        /\ i < j
        /\ ctxs[i].keys = ctxs[j].keys
        /\ heap[ctxs[i].emit_funcs] # <<>>
        /\ heap[ctxs[j].emit_funcs] = <<>>
        /\ heap[ctxs[j].metadata] = <<>>
        /\ heap[ctxs[j].completed_steps] = <<>>

\* The cache of the given kind that context c holds (NoCache when it has none).
CacheOf(c, kind) == IF kind = "action" THEN c.action_cache ELSE c.llm_cache

\* C16: the caches of the contexts are scoped by conversation.  An update of
\* fingerprint fp through a context of conversation A changes no lookup through
\* a context of another conversation B and is what a lookup of fp through any
\* context of A returns; resolving a context changes no lookup; hence contexts
\* of the same conversation, earlier or later, look up the same results.
C16_CachesScopedByConversation ==
    /\ [][\A i \in 1..Len(ctxs), kind \in CacheKinds, fp \in Fingerprints, r \in CacheResults :
            CtxCacheUpdate(i, kind, fp, r) =>
                \A j \in 1..Len(ctxs), kj \in CacheKinds, fj \in Fingerprints :
                    CacheOf(ctxs[j], kj) # NoCache =>
                        IF ctxs[j].keys = ctxs[i].keys /\ kj = kind /\ fj = fp
                        THEN Cache_lookup(caches', CacheOf(ctxs[j], kj), fj) = r
                        ELSE Cache_lookup(caches', CacheOf(ctxs[j], kj), fj)
                                = Cache_lookup(caches, CacheOf(ctxs[j], kj), fj)]_vars
    /\ [][ContextCreated =>
            \A j \in 1..Len(ctxs), kj \in CacheKinds, fj \in Fingerprints :
                CacheOf(ctxs[j], kj) # NoCache =>
                    Cache_lookup(caches', CacheOf(ctxs[j], kj), fj)
                        = Cache_lookup(caches, CacheOf(ctxs[j], kj), fj)]_vars
    /\ [](\A i, j \in 1..Len(ctxs), kind \in CacheKinds, fp \in Fingerprints :
            (ctxs[i].keys = ctxs[j].keys /\ CacheOf(ctxs[i], kind) # NoCache
                /\ CacheOf(ctxs[j], kind) # NoCache) =>
                Cache_lookup(caches, CacheOf(ctxs[i], kind), fp)
                    = Cache_lookup(caches, CacheOf(ctxs[j], kind), fp))

\* C16 witness: a result was stored through a context of one conversation; a
\* context of another conversation with the same kind of cache misses the
\* fingerprint, and a context resolved later for the first conversation finds
\* the result.
C16_Witness ==
    \E a, b, c \in 1..Len(ctxs), kind \in CacheKinds, fp \in Fingerprints :
        /\ a < c
        /\ ctxs[a].keys = ctxs[c].keys /\ ctxs[b].keys # ctxs[a].keys
        /\ CacheOf(ctxs[a], kind) # NoCache /\ CacheOf(ctxs[b], kind) # NoCache
        /\ CacheOf(ctxs[c], kind) # NoCache
        /\ ctxs[c].found[2] > 0
        /\ Cache_lookup(caches, CacheOf(ctxs[c], kind), fp) # Miss
        /\ Cache_lookup(caches, CacheOf(ctxs[b], kind), fp) = Miss

-----------------------------------------------------------------------------
(* The Telegram transport (telegram.py): parsing and sending.              *)

ChatIdValues == {None, PyInt("7"), PyInt("8"), PyStr("abc")}
MessageIdValues == {None, PyInt("1"), PyStr("m")}
TextValues == {None, PyStr("hello")}
VoiceValues == {None, PyStr("f1")}
VideoNoteValues == {None, PyStr("f2")}

\* The requests the webhook may receive.
Payloads ==
    {BlankMessage, [BlankMessage EXCEPT !.message = "null"]}
    \cup {m \in [message : {"dict"}, chat : {"absent", "null", "dict"}, chat_id : ChatIdValues,
                 message_id : MessageIdValues, text : TextValues, voice : VoiceValues,
                 video_note : VideoNoteValues] : m.chat # "dict" => m.chat_id = None}

\* The provider's file paths (getFile) by file id.
FilePath(file_id) == "path/" \o file_id

\* _get_file_url
Telegram_get_file_url(bot_token, file_id) ==
    PyStr("https://api.telegram.org/file/bot" \o bot_token \o "/" \o FilePath(file_id.v))

\* _parse_inbound lines 149-169: the checks of chat, chat.id and message_id; the
\* message of the error raised, "" when all pass.
Telegram_parse_ids_unchecked_message_id(p) ==
    IF p.chat # "dict" THEN "No `chat` found in Telegram message"
    ELSE IF p.chat_id = None THEN "No 'chat_id' found in Telegram message"
    ELSE IF ~IsInt(p.chat_id) THEN "Bad 'chat_id' found in Telegram message"
    ELSE IF p.message_id = None THEN "No 'message_id' found in Telegram message"
    ELSE ""

Telegram_parse_ids(p) ==
    IF p.chat # "dict" THEN "No `chat` found in Telegram message"
    ELSE IF p.chat_id = None THEN "No 'chat_id' found in Telegram message"
    ELSE IF ~IsInt(p.chat_id) THEN "Bad 'chat_id' found in Telegram message"
    ELSE IF p.message_id = None THEN "No 'message_id' found in Telegram message"
    ELSE IF ~IsInt(p.message_id) THEN "Bad 'message_id' found in Telegram message"
    ELSE ""

\* _parse_inbound lines 171-172: the file_id of payload.get("voice") or
\* payload.get("video_note"), None when the payload has neither.
Telegram_media_voice_only(p) == p.voice

Telegram_media(p) == IF p.voice # None THEN p.voice ELSE p.video_note

\* _parse_inbound lines 184-191: a message when there is text, else no message.
Telegram_parse_text_always_block(p) ==
    InBlock(p.text, None, Str(p.chat_id), Str(p.message_id))

Telegram_parse_text(p) ==
    IF p.text # None
    THEN InBlock(p.text, None, Str(p.chat_id), Str(p.message_id))
    ELSE NoBlock

\* _parse_inbound: the error raised ("" when none), the message returned and the
\* number of getFile lookups made.  lookup is the provider's answer to getFile.
Telegram_parse_inbound(p, bot_token, lookup) ==
    LET e == Telegram_parse_ids(p)
        file_id == Telegram_media(p)
    IN  IF e # "" THEN [exc |-> e, block |-> NoBlock, lookups |-> 0]
        ELSE IF file_id # None
        THEN IF lookup = "ok"
             THEN [exc |-> "",
                   block |-> InBlock(p.text, Telegram_get_file_url(bot_token, file_id),
                                     Str(p.chat_id), Str(p.message_id)),
                   lookups |-> 1]
             ELSE [exc |-> "getFile failed", block |-> NoBlock, lookups |-> 1]
        ELSE [exc |-> "", block |-> Telegram_parse_text(p), lookups |-> 0]

\* The blocks an agent produces.  A block has a kind (its MIME type), a text and
\* a chat id.
BlockKinds == {"text", "image", "audio", "video", "other"}
MediaKinds == {"image", "audio", "video"}
AgentBlock(kind) ==
    [kind |-> kind, text |-> IF kind = "text" THEN PyStr("hi there") ELSE None, chat_id |-> None]
Batches ==
    {<<AgentBlock("text")>>, <<AgentBlock("image")>>,
     <<AgentBlock("other"), AgentBlock("text")>>, <<AgentBlock("text"), AgentBlock("image")>>}

\* block.set_chat_id(chat_id) for every block of a batch
SetChatId(blocks, chat_id) == [i \in DOMAIN blocks |-> [blocks[i] EXCEPT !.chat_id = chat_id]]

\* response_for_exception(e, chat_id): the error block for an exception.
ErrorText(exc) == PyStr("An error happened while creating a response: " \o exc)
response_for_exception(exc, chat_id) ==
    [kind |-> "text", text |-> ErrorText(exc), chat_id |-> chat_id]

\* The provider's answers to one call.
Outcomes == {"ok", "non200", "neterr"}

SendMethod(kind) ==
    CASE kind = "image" -> "sendPhoto"
      [] kind = "audio" -> "sendAudio"
      [] kind = "video" -> "sendVideo"
      [] OTHER -> "sendMessage"

Delivery(b, o) ==
    [method |-> SendMethod(b.kind), to |-> Str(b.chat_id).v, block |-> b, answer |-> o]

\* _send: the blocks of a batch are sent in order; outcomes[i] is the provider's
\* answer to the call made for block i.  The result is the exception raised
\* ("" when none) and the calls made to the provider, each with its answer.
RECURSIVE Telegram_send_from(_, _, _, _)
Telegram_send_from(blocks, outcomes, i, calls) ==
    IF i > Len(blocks) THEN [exc |-> "", calls |-> calls]
    ELSE LET b == blocks[i]
             o == IF ToIntOk(b.chat_id) THEN outcomes[i]
                  ELSE IF outcomes[i] = "ok" THEN "non200" ELSE outcomes[i]
             made == Append(calls, Delivery(b, o))
         IN  IF b.kind = "text" \/ b.text # None
             THEN IF ~ToIntOk(b.chat_id)
                  THEN [exc |-> "int(chat_id) failed", calls |-> calls]
                  ELSE IF o = "neterr"
                  THEN [exc |-> "requests exception", calls |-> made]
                  ELSE Telegram_send_from(blocks, outcomes, i + 1, made)
             ELSE IF b.kind \in MediaKinds
             THEN IF o = "neterr"
                  THEN [exc |-> "requests exception", calls |-> made]
                  ELSE IF o = "non200"
                  THEN [exc |-> "Message not sent to chat successfully", calls |-> made]
                  ELSE Telegram_send_from(blocks, outcomes, i + 1, made)
             ELSE Telegram_send_from(blocks, outcomes, i + 1, calls)

\* A block _send has a branch for: text, image, audio or video.
Sendable(b) == b.kind = "text" \/ b.text # None \/ b.kind \in MediaKinds

\* A _send that raises at the first block it has no branch for.
Telegram_send_unsupported_fatal(blocks, outcomes) ==
    LET bad == {i \in 1..Len(blocks) : ~Sendable(blocks[i])}
    IN  IF bad = {} THEN Telegram_send_from(blocks, outcomes, 1, <<>>)
        ELSE LET u == CHOOSE i \in bad : \A j \in bad : i <= j
                 r == Telegram_send_from(SubSeq(blocks, 1, u - 1), outcomes, 1, <<>>)
             IN  IF r.exc # "" THEN r ELSE [exc |-> "unsupported block", calls |-> r.calls]

Telegram_send(blocks, outcomes) == Telegram_send_from(blocks, outcomes, 1, <<>>)

-----------------------------------------------------------------------------
(* The agent service the transports call.                                  *)

\* AgentService(use_llm_cache=False, use_action_cache=False)
AgentService_use_llm_cache == FALSE
AgentService_use_action_cache == FALSE

\* The context keys of a conversation: derived from the chat id alone.
ContextKeys(chat_id) == Str(chat_id).v

\* build_default_context(context_id)
build_default_context(fs, cs, h, context_id) ==
    AgentContext_get_or_create(fs, cs, h, ContextKeys(context_id),
                               AgentService_use_llm_cache, AgentService_use_action_cache)

-----------------------------------------------------------------------------
(* Spec: the Telegram webhook, one request after the other.  A request is  *)
(* handled by telegram_respond (TelegramTransport) or by respond           *)
(* (TelegramBot); tg.pc is the handler's position: "parse", "context",     *)
(* "append", "emit_func", "run", "create_response", "send_response",       *)
(* "except", "ack", and at the end "done" (the handler returned) or        *)
(* "raised" (an exception left the handler).                               *)

Handlers == {"telegram_respond", "respond"}

\* The argument of parse_inbound: kwargs.get("message", {}).
MessageOf(kw) == IF kw.message = "absent" THEN [BlankMessage EXCEPT !.message = "dict"] ELSE kw

\* A request arrives and the handler runs its first two lines, outside the try:
\*   message = kwargs.get("message", {}); chat_id = message.get("chat", {}).get("id")
\* which raise AttributeError when message or chat is present and not a dict.
TgReceive(h, kw) ==
    /\ tg.pc = "idle"
    /\ nreq < MaxRequests
    /\ nreq' = nreq + 1
    /\ tg' = [TgIdle EXCEPT
                !.handler = h,
                !.kwargs = kw,
                !.files0 = files,
                !.chat_id = IF kw.message = "dict" /\ kw.chat = "dict" THEN kw.chat_id ELSE None,
                !.pc = IF kw.message = "null" \/ (kw.message = "dict" /\ kw.chat = "null")
                       THEN "raised" ELSE "parse"]
    /\ UNCHANGED <<files, caches, ctxs, heap, sent, getFileCalls, telegram, store, tp, wgVars,
                   plugins>>

\* incoming_message = self.parse_inbound(message)
TgParse(lookup) ==
    /\ tg.pc = "parse"
    /\ LET r == Telegram_parse_inbound(MessageOf(tg.kwargs), Str(telegram.bot_token).v, lookup)
       IN  /\ tg' = [tg EXCEPT
                       !.parsed = TRUE,
                       !.incoming = r.block,
                       !.exc = r.exc,
                       !.pc = IF r.exc # "" THEN "except"
                              ELSE IF r.block.is_none THEN "ack"
                              ELSE IF tg.handler = "respond" THEN "create_response"
                              ELSE "context"]
           /\ getFileCalls' = getFileCalls + r.lookups
    /\ UNCHANGED <<files, caches, ctxs, heap, sent, telegram, store, tp, wgVars, nreq, plugins>>

\* context = self.agent_service.build_default_context(chat_id); the stores may fail.
TgBuildContext(ok) ==
    /\ tg.pc = "context"
    /\ IF ok
       THEN LET r == build_default_context(files, caches, heap, tg.chat_id)
            IN  /\ files' = r.files
                /\ caches' = r.caches
                /\ heap' = r.heap
                /\ ctxs' = Append(ctxs, r.context)
                /\ tg' = [tg EXCEPT !.context = Len(ctxs) + 1, !.pc = "append"]
       ELSE /\ tg' = [tg EXCEPT !.exc = "store failed", !.pc = "except"]
            /\ UNCHANGED <<files, caches, ctxs, heap>>
    /\ UNCHANGED <<sent, getFileCalls, telegram, store, tp, wgVars, nreq, plugins>>

\* telegram_respond without lines 213-215: the inbound text is not appended.
TgAppend_skipped(ok) ==
    /\ tg.pc = "append"
    /\ tg' = IF ok THEN [tg EXCEPT !.pc = "emit_func"]
             ELSE [tg EXCEPT !.exc = "store failed", !.pc = "except"]
    /\ UNCHANGED <<files, caches, ctxs, heap, sent, getFileCalls, telegram, store, tp, wgVars,
                   nreq, plugins>>

\* context.chat_history.append_user_message(text=incoming_message.text, ...)
TgAppend(ok) ==
    /\ tg.pc = "append"
    /\ IF ok
       THEN /\ files' = ChatHistory_append_user_message(
                            files, ctxs[tg.context].chat_history, tg.incoming.text)
            /\ tg' = [tg EXCEPT !.pc = "emit_func"]
       ELSE /\ tg' = [tg EXCEPT !.exc = "store failed", !.pc = "except"]
            /\ UNCHANGED files
    /\ UNCHANGED <<caches, ctxs, heap, sent, getFileCalls, telegram, store, tp, wgVars, nreq,
                   plugins>>

\* build_emit_func(chat_id): the callback sends to chat_id.
build_emit_func(chat_id) == [transport |-> "telegram", chat_id |-> chat_id]

\* context.emit_funcs = [self.build_emit_func(chat_id=chat_id)]: a new list.
TgSetEmitFuncs ==
    /\ tg.pc = "emit_func"
    /\ heap' = Append(heap, <<build_emit_func(tg.chat_id)>>)
    /\ ctxs' = [ctxs EXCEPT ![tg.context].emit_funcs = Len(heap) + 1]
    /\ tg' = [tg EXCEPT !.pc = "run"]
    /\ UNCHANGED <<files, caches, sent, getFileCalls, telegram, store, tp, wgVars, nreq, plugins>>

\* The callback new_emit_func(blocks, metadata) of build_emit_func: the blocks
\* get the chat id and are sent.
new_emit_func(f, blocks, outcomes) == Telegram_send(SetChatId(blocks, f.chat_id), outcomes)

\* run_agent: the agent emits a batch through the callback registered on the context.
TgAgentEmit(blocks, outcomes) ==
    /\ tg.pc = "run"
    /\ tg.emits < MaxEmits
    /\ LET f == heap[ctxs[tg.context].emit_funcs][1]
           r == new_emit_func(f, blocks, outcomes)
       IN  /\ sent' = sent \o r.calls
           /\ tg' = [tg EXCEPT !.ran = TRUE,
                               !.emits = @ + 1,
                               !.exc = r.exc,
                               !.pc = IF r.exc # "" THEN "except" ELSE "run"]
    /\ UNCHANGED <<files, caches, ctxs, heap, getFileCalls, telegram, store, tp, wgVars, nreq,
                   plugins>>

\* run_agent returns: None, or the blocks of the response.
TgAgentReturn(has_response, blocks, chat_id) ==
    /\ tg.pc = "run"
    /\ tg' = [tg EXCEPT !.ran = TRUE,
                        !.has_response = has_response,
                        !.response = IF has_response THEN SetChatId(blocks, chat_id) ELSE <<>>,
                        !.pc = IF has_response THEN "send_response" ELSE "ack"]
    /\ UNCHANGED <<files, caches, ctxs, heap, sent, getFileCalls, telegram, store, tp, wgVars, nreq,
                   plugins>>

\* run_agent raises.
TgAgentRaise ==
    /\ tg.pc = "run"
    /\ tg' = [tg EXCEPT !.ran = TRUE, !.exc = "agent failed", !.pc = "except"]
    /\ UNCHANGED <<files, caches, ctxs, heap, sent, getFileCalls, telegram, store, tp, wgVars, nreq,
                   plugins>>

\* respond: response = self.create_response(incoming_message), which returns
\* None or blocks for the chat of the message, or raises.
TgCreateResponse(ok, has_response, blocks) ==
    /\ tg.pc = "create_response"
    /\ tg' = IF ~ok THEN [tg EXCEPT !.ran = TRUE, !.exc = "create_response failed", !.pc = "except"]
             ELSE [tg EXCEPT !.ran = TRUE,
                             !.has_response = has_response,
                             !.response = IF has_response
                                          THEN SetChatId(blocks, tg.incoming.chat_id) ELSE <<>>,
                             !.pc = IF has_response THEN "send_response" ELSE "ack"]
    /\ UNCHANGED <<files, caches, ctxs, heap, sent, getFileCalls, telegram, store, tp, wgVars, nreq,
                   plugins>>

\* if response is not None: self.send(response)
TgSendResponse(outcomes) ==
    /\ tg.pc = "send_response"
    /\ LET r == Telegram_send(tg.response, outcomes)
       IN  /\ sent' = sent \o r.calls
           /\ tg' = [tg EXCEPT !.exc = r.exc, !.explicit_from = Len(sent),
                               !.pc = IF r.exc # "" THEN "except" ELSE "ack"]
    /\ UNCHANGED <<files, caches, ctxs, heap, getFileCalls, telegram, store, tp, wgVars, nreq,
                   plugins>>

\* except Exception as e: response = self.response_for_exception(e, chat_id=chat_id)
\*                        if chat_id is not None: self.send([response])
\* An exception of this send leaves the handler.
TgExcept(outcomes) ==
    /\ tg.pc = "except"
    /\ LET response == response_for_exception(tg.exc, tg.chat_id)
           r == IF tg.chat_id # None THEN Telegram_send(<<response>>, outcomes)
                ELSE [exc |-> "", calls |-> <<>>]
       IN  /\ sent' = sent \o r.calls
           /\ tg' = [tg EXCEPT !.pc = IF r.exc # "" THEN "raised" ELSE "ack"]
    /\ UNCHANGED <<files, caches, ctxs, heap, getFileCalls, telegram, store, tp, wgVars, nreq,
                   plugins>>

\* return InvocableResponse(string="OK")
TgAck ==
    /\ tg.pc = "ack"
    /\ tg' = [tg EXCEPT !.pc = "done", !.result = "OK"]
    /\ UNCHANGED <<files, caches, ctxs, heap, sent, getFileCalls, telegram, store, tp, wgVars, nreq,
                   plugins>>

\* The request is over: the handler's locals and the context it built are
\* dropped; the stores stay.
TgEnd ==
    /\ tg.pc \in {"done", "raised"}
    /\ tg' = TgIdle
    /\ ctxs' = <<>>
    /\ heap' = <<>>
    /\ sent' = <<>>
    /\ getFileCalls' = 0
    /\ UNCHANGED <<files, caches, telegram, store, tp, wgVars, nreq, plugins>>

\* The provider's answers to the calls of one batch.
OutcomesOf(blocks) == [1..Len(blocks) -> Outcomes]

\* The chat ids an agent may give the blocks it returns.
AgentChatIds(chat_id) == {None, chat_id}

Next ==
    \/ \E h \in Handlers, kw \in Payloads : TgReceive(h, kw)
    \/ \E lookup \in {"ok", "failed"} : TgParse(lookup)
    \/ \E ok \in BOOLEAN : TgBuildContext(ok)
    \/ \E ok \in BOOLEAN : TgAppend(ok)
    \/ TgSetEmitFuncs
    \/ \E blocks \in Batches : \E outcomes \in OutcomesOf(blocks) : TgAgentEmit(blocks, outcomes)
    \/ \E blocks \in Batches, c \in AgentChatIds(tg.chat_id) : TgAgentReturn(TRUE, blocks, c)
    \/ TgAgentReturn(FALSE, <<>>, None)
    \/ TgAgentRaise
    \/ \E blocks \in Batches : TgCreateResponse(TRUE, TRUE, blocks)
    \/ \E ok \in BOOLEAN : TgCreateResponse(ok, FALSE, <<>>)
    \/ \E outcomes \in OutcomesOf(tg.response) : TgSendResponse(outcomes)
    \/ \E outcomes \in OutcomesOf(<<1>>) : TgExcept(outcomes)
    \/ TgAck
    \/ TgEnd

Spec == Init /\ [][Next]_vars

-----------------------------------------------------------------------------
(* Claims about the Telegram webhook, checked under Spec.                  *)

\* The handler has ended: it returned or an exception left it.
TgFinished == tg.pc \in {"done", "raised"}

\* The payload _parse_inbound got.
TgPayload == MessageOf(tg.kwargs)

\* The error blocks among the calls made to the provider.
ErrorBlocksSent ==
    Cardinality({i \in 1..Len(sent) : sent[i].block.text = ErrorText(tg.exc)})

\* C1: whatever the payload and whatever fails inside, telegram_respond /
\* respond returns "OK" and no exception leaves the handler.
C1_AlwaysAcknowledged ==
    /\ tg.pc # "raised"
    /\ tg.pc = "done" => tg.result = "OK"

\* C2: when a step inside the try of the handler (parse, contextualize,
\* execute, send) raised, exactly one error block was sent if a chat id was
\* resolved from the payload; if none was resolved, nothing was sent and the
\* request was acknowledged.
C2_OneErrorBlock ==
    (TgFinished /\ tg.exc # "") =>
        IF tg.chat_id # None
        THEN ErrorBlocksSent = 1
        ELSE sent = <<>> /\ tg.pc = "done" /\ tg.result = "OK"

\* The payloads C3 is about: no chat, no chat.id, a chat.id that is no integer,
\* no message_id, or a message_id that is no integer.
RejectedIds(p) ==
    \/ p.chat # "dict"
    \/ p.chat_id.t # "int"
    \/ p.message_id.t # "int"

\* C3: _parse_inbound raises and yields no message for a payload with no chat,
\* no chat.id, a non-integer chat.id, no message_id or a non-integer message_id,
\* and makes no remote file lookup for it.
C3_BadIdsRejected ==
    (tg.parsed /\ RejectedIds(TgPayload)) =>
        /\ tg.exc # ""
        /\ tg.incoming.is_none
        /\ getFileCalls = 0

\* A payload with a voice file and a message_id that is a string was parsed.
C3_Witness ==
    /\ tg.parsed
    /\ tg.kwargs.chat = "dict" /\ tg.kwargs.chat_id.t = "int"
    /\ tg.kwargs.message_id.t = "str"
    /\ tg.kwargs.voice # None
    /\ tg.pc = "except"

\* C4: a message with a valid chat id and message id, no text and no
\* voice/video_note is a no-op: no message is parsed, chat history is unchanged,
\* no context and no emit callback are built, the agent is not run, nothing is
\* sent to the provider and the handler returns "OK".
C4_NoTextIsNoOp ==
    (/\ tg.parsed
     /\ ~RejectedIds(TgPayload)
     /\ TgPayload.text = None /\ TgPayload.voice = None /\ TgPayload.video_note = None) =>
        /\ tg.incoming.is_none
        /\ tg.exc = ""
        /\ files = tg.files0
        /\ tg.context = 0 /\ ctxs = <<>> /\ heap = <<>>
        /\ ~tg.ran
        /\ sent = <<>>
        /\ tg.pc \in {"ack", "done"}
        /\ tg.pc = "done" => tg.result = "OK"

\* Such a message was handled to the end, in a chat that has a history.
C4_Witness ==
    /\ tg.pc = "done" /\ tg.result = "OK"
    /\ tg.handler = "telegram_respond"
    /\ ~RejectedIds(TgPayload)
    /\ TgPayload.text = None /\ TgPayload.voice = None /\ TgPayload.video_note = None
    /\ \E f \in 1..Len(files) : files[f].keys = ContextKeys(tg.chat_id) /\ files[f].msgs # <<>>

\* C5: for a payload with valid ids that carries voice.file_id (or, without a
\* voice, video_note.file_id), exactly one file lookup is made and, unless the
\* lookup fails, _parse_inbound returns a message with the payload's text (None
\* when it has none), the file URL resolved from that file_id, and the string
\* forms of the payload's chat id and message id; the message is returned also
\* when there is no text.
C5_MediaMessage ==
    (/\ tg.parsed
     /\ ~RejectedIds(TgPayload)
     /\ (TgPayload.voice # None \/ TgPayload.video_note # None)) =>
        LET p == TgPayload
            file_id == IF p.voice # None THEN p.voice ELSE p.video_note
        IN  /\ getFileCalls = 1
            /\ IF tg.incoming.is_none
               THEN tg.exc = "getFile failed"
               ELSE /\ tg.incoming.text = p.text
                    /\ tg.incoming.url = Telegram_get_file_url(Str(telegram.bot_token).v, file_id)
                    /\ tg.incoming.chat_id = PyStr(p.chat_id.v)
                    /\ tg.incoming.message_id = PyStr(p.message_id.v)

\* A voice message without text was parsed into a message with a URL and no text.
C5_Witness ==
    /\ tg.parsed
    /\ tg.kwargs.text = None /\ tg.kwargs.voice # None
    /\ ~tg.incoming.is_none
    /\ tg.incoming.text = None
    /\ tg.incoming.url = PyStr("https://api.telegram.org/file/botTOKEN/path/f1")
    /\ tg.incoming.chat_id.t = "str"

\* The provider calls of the request made through the emission callback, and
\* those made by the explicit self.send(response).
CallbackCalls == IF tg.has_response THEN SubSeq(sent, 1, tg.explicit_from) ELSE sent
ExplicitCalls ==
    IF tg.has_response /\ tg.pc \in {"ack", "done"}
    THEN SubSeq(sent, tg.explicit_from + 1, Len(sent)) ELSE <<>>

\* C21: in a telegram_respond that succeeded, no block that the agent run
\* delivered through the registered emission callback is sent again by the
\* explicit send of the blocks the run returned.
C21_NoDoubleDelivery ==
    (tg.handler = "telegram_respond" /\ tg.pc = "done" /\ tg.exc = "") =>
        \A i \in 1..Len(CallbackCalls), j \in 1..Len(ExplicitCalls) :
            ~(/\ CallbackCalls[i].block = ExplicitCalls[j].block
              /\ CallbackCalls[i].answer = "ok" /\ ExplicitCalls[j].answer = "ok")

\* C23: every call the transport makes to the provider while a webhook request
\* is handled (for a block emitted through the callback, for a block the agent
\* run returned, for the error block) is addressed to the chat id of the
\* request's inbound message, which is not missing.
C23_AddressedToInboundChat ==
    \A i \in 1..Len(sent) : tg.chat_id # None /\ sent[i].to = Str(tg.chat_id).v

-----------------------------------------------------------------------------
(* SpecWidget: the web widget endpoint answer (steamship_widget.py).  The  *)
(* requests share one transport object, hence one message_output; wg[r].pc *)
(* is the position of request r: "parse", "context", "append",             *)
(* "emit_func", "run", "return", and at the end "done" or "raised".        *)
(* message_output.by is the request whose step assigned the attribute last *)
(* and wg[r].returned_by the one that assigned what request r returned.    *)

QuestionValues == {None, PyStr("hello")}
SessionValues == {None, PyStr("abc")}
WidgetPayloads == [question : QuestionValues, chat_session_id : SessionValues]

WidgetBatches == {<<AgentBlock("text")>>, <<AgentBlock("text"), AgentBlock("image")>>}

\* str(uuid.uuid4()): an id no other request has.
Uuid(r) == PyStr("uuid-" \o ToString(r))

\* A _parse_inbound that takes a payload without a question as a message.
Widget_parse_inbound_unchecked(payload, r) ==
    LET chat_id == IF payload.chat_session_id = None THEN PyStr("default")
                   ELSE payload.chat_session_id
    IN  [exc |-> "", block |-> InBlock(payload.question, None, Str(chat_id), Str(Uuid(r)))]

\* _parse_inbound: the error raised ("" when none) and the message.
Widget_parse_inbound(payload, r) ==
    IF payload.question = None
    THEN [exc |-> "No 'question' found in Steamship widget message", block |-> NoBlock]
    ELSE LET chat_id == IF payload.chat_session_id = None THEN PyStr("default")
                        ELSE payload.chat_session_id
         IN  [exc |-> "", block |-> InBlock(payload.question, None, Str(chat_id), Str(Uuid(r)))]

\* save_for_emit(blocks, metadata): self.message_output = blocks
save_for_emit(output, blocks) == [output EXCEPT !.is_set = TRUE, !.blocks = blocks]

\* The number of steps request r has taken: its arrival, the statements of
\* answer it has executed and the emissions of its agent run.
WidgetSteps(r) ==
    wg[r].emits +
        CASE wg[r].pc = "parse" -> 1
          [] wg[r].pc = "context" -> 2
          [] wg[r].pc = "append" -> 3
          [] wg[r].pc = "emit_func" -> 4
          [] wg[r].pc = "run" -> 5
          [] wg[r].pc = "return" -> 6
          [] wg[r].pc = "done" -> 7
          [] wg[r].pc = "raised" /\ wg[r].incoming.is_none -> 2
          [] wg[r].pc = "raised" /\ wg[r].context = 0 -> 3
          [] wg[r].pc = "raised" /\ wg[r].exc = "store failed" -> 4
          [] OTHER -> 7

\* The number of steps the requests have taken.
WidgetWork ==
    LET RECURSIVE Sum(_)
        Sum(r) == IF r = 0 THEN 0 ELSE WidgetSteps(r) + Sum(r - 1)
    IN  Sum(Len(wg))

\* A request arrives.
WReceive(payload) ==
    /\ nreq < MaxRequests
    /\ WidgetWork < MaxWidgetWork
    /\ nreq' = nreq + 1
    /\ wg' = Append(wg, [pc |-> "parse", payload |-> payload, incoming |-> NoBlock, context |-> 0,
                         files0 |-> files, emits |-> 0, emitted |-> <<>>, exc |-> "",
                         returned |-> <<>>, returned_by |-> 0])
    /\ UNCHANGED <<files, caches, ctxs, heap, tgVars, message_output, plugins>>

\* incoming_message = self.parse_inbound(payload); an exception leaves the handler.
WParse(r) ==
    /\ wg[r].pc = "parse"
    /\ WidgetWork < MaxWidgetWork
    /\ LET p == Widget_parse_inbound(wg[r].payload, r)
       IN  wg' = [wg EXCEPT ![r].incoming = p.block,
                            ![r].exc = p.exc,
                            ![r].pc = IF p.exc # "" THEN "raised" ELSE "context"]
    /\ UNCHANGED <<files, caches, ctxs, heap, tgVars, message_output, nreq, plugins>>

\* context = self.agent_service.build_default_context(context_id=incoming_message.chat_id)
WBuildContext(r, ok) ==
    /\ wg[r].pc = "context"
    /\ WidgetWork < MaxWidgetWork
    /\ IF ok
       THEN LET c == build_default_context(files, caches, heap, wg[r].incoming.chat_id)
            IN  /\ files' = c.files
                /\ caches' = c.caches
                /\ heap' = c.heap
                /\ ctxs' = Append(ctxs, c.context)
                /\ wg' = [wg EXCEPT ![r].context = Len(ctxs) + 1, ![r].pc = "append"]
       ELSE /\ wg' = [wg EXCEPT ![r].exc = "store failed", ![r].pc = "raised"]
            /\ UNCHANGED <<files, caches, ctxs, heap>>
    /\ UNCHANGED <<tgVars, message_output, nreq, plugins>>

\* context.chat_history.append_user_message(text=incoming_message.text, ...)
WAppend(r, ok) ==
    /\ wg[r].pc = "append"
    /\ WidgetWork < MaxWidgetWork
    /\ IF ok
       THEN /\ files' = ChatHistory_append_user_message(
                            files, ctxs[wg[r].context].chat_history, wg[r].incoming.text)
            /\ wg' = [wg EXCEPT ![r].pc = "emit_func"]
       ELSE /\ wg' = [wg EXCEPT ![r].exc = "store failed", ![r].pc = "raised"]
            /\ UNCHANGED files
    /\ UNCHANGED <<caches, ctxs, heap, tgVars, message_output, nreq, plugins>>

\* context.emit_funcs = [self.save_for_emit]: a new list.
WSetEmitFuncs(r) ==
    /\ wg[r].pc = "emit_func"
    /\ WidgetWork < MaxWidgetWork
    /\ heap' = Append(heap, <<[transport |-> "widget", chat_id |-> None]>>)
    /\ ctxs' = [ctxs EXCEPT ![wg[r].context].emit_funcs = Len(heap) + 1]
    /\ wg' = [wg EXCEPT ![r].pc = "run"]
    /\ UNCHANGED <<files, caches, tgVars, message_output, nreq, plugins>>

\* run_agent: the agent emits a batch through the callback registered on the context.
WAgentEmit(r, blocks) ==
    /\ wg[r].pc = "run"
    /\ WidgetWork < MaxWidgetWork
    /\ wg[r].emits < MaxEmits
    /\ heap[ctxs[wg[r].context].emit_funcs][1].transport = "widget"
    /\ message_output' = [save_for_emit(message_output, blocks) EXCEPT !.by = r]
    /\ wg' = [wg EXCEPT ![r].emits = @ + 1, ![r].emitted = @ \o blocks]
    /\ UNCHANGED <<files, caches, ctxs, heap, tgVars, nreq, plugins>>

\* run_agent returns.
WAgentReturn(r) ==
    /\ wg[r].pc = "run"
    /\ WidgetWork < MaxWidgetWork
    /\ wg' = [wg EXCEPT ![r].pc = "return"]
    /\ UNCHANGED <<files, caches, ctxs, heap, tgVars, message_output, nreq, plugins>>

\* run_agent raises:
\*   self.message_output = [self.response_for_exception(e, chat_id=incoming_message.chat_id)]
WAgentRaise(r) ==
    /\ wg[r].pc = "run"
    /\ WidgetWork < MaxWidgetWork
    /\ message_output' =
           [is_set |-> TRUE,
            blocks |-> <<response_for_exception("agent failed", wg[r].incoming.chat_id)>>,
            by |-> r]
    /\ wg' = [wg EXCEPT ![r].exc = "agent failed", ![r].pc = "return"]
    /\ UNCHANGED <<files, caches, ctxs, heap, tgVars, nreq, plugins>>

\* return self.message_output: AttributeError when nothing ever assigned it.
WReturn(r) ==
    /\ wg[r].pc = "return"
    /\ WidgetWork < MaxWidgetWork
    /\ wg' = IF message_output.is_set
             THEN [wg EXCEPT ![r].returned = message_output.blocks,
                             ![r].returned_by = message_output.by, ![r].pc = "done"]
             ELSE [wg EXCEPT ![r].pc = "raised"]
    /\ UNCHANGED <<files, caches, ctxs, heap, tgVars, message_output, nreq, plugins>>

NextWidget ==
    \/ \E payload \in WidgetPayloads : WReceive(payload)
    \/ \E r \in 1..Len(wg) : WParse(r)
    \/ \E r \in 1..Len(wg), ok \in BOOLEAN : WBuildContext(r, ok)
    \/ \E r \in 1..Len(wg), ok \in BOOLEAN : WAppend(r, ok)
    \/ \E r \in 1..Len(wg) : WSetEmitFuncs(r)
    \/ \E r \in 1..Len(wg), blocks \in WidgetBatches : WAgentEmit(r, blocks)
    \/ \E r \in 1..Len(wg) : WAgentReturn(r)
    \/ \E r \in 1..Len(wg) : WAgentRaise(r)
    \/ \E r \in 1..Len(wg) : WReturn(r)

SpecWidget == Init /\ [][NextWidget]_vars

-----------------------------------------------------------------------------
(* Claims about the web widget, checked under SpecWidget.                  *)

\* The chat session of a payload.
SessionOf(payload) ==
    IF payload.chat_session_id = None THEN "default" ELSE payload.chat_session_id.v

\* The user entries with text q in the log that context c refers to.
UserEntries(c, q) ==
    {m \in 1..Len(files[ctxs[c].chat_history].msgs) :
        files[ctxs[c].chat_history].msgs[m] = [role |-> "user", text |-> q]}

\* C10: for a payload with question q and chat_session_id s, answer resolves
\* the context of conversation s, appends a user entry with text q to that
\* conversation's chat history before the agent runs and, when the agent run
\* ends without raising, returns exactly the blocks the agent emitted through
\* the callback during that run.
C10_ReturnsEmittedBlocks ==
    \A r \in 1..Len(wg) :
        /\ wg[r].pc \in {"emit_func", "run", "return", "done"} =>
              /\ ctxs[wg[r].context].keys = SessionOf(wg[r].payload)
              /\ UserEntries(wg[r].context, wg[r].payload.question) # {}
        /\ (wg[r].pc \in {"done", "raised"} /\ wg[r].context # 0 /\ wg[r].exc = "") =>
              /\ wg[r].pc = "done"
              /\ wg[r].returned = wg[r].emitted

\* C11: the blocks a widget request returns were assigned to message_output by
\* a step of that same request, never left over from an earlier request or
\* written by another request in flight; also when its agent run emitted
\* nothing.
C11_ReturnsOwnBlocks ==
    \A r \in 1..Len(wg) :
        wg[r].pc = "done" => wg[r].returned_by = r

\* C12: when the agent run of a widget request raised, no exception leaves
\* answer and it returns exactly one block, the error block built from the
\* exception for the request's chat session, whatever was emitted before.
C12_ErrorBlockReturned ==
    \A r \in 1..Len(wg) :
        (wg[r].pc \in {"done", "raised"} /\ wg[r].exc = "agent failed") =>
            /\ wg[r].pc = "done"
            /\ wg[r].returned =
                   <<response_for_exception("agent failed", PyStr(SessionOf(wg[r].payload)))>>

\* A step of request r.
WStep(r) == wg'[r] # wg[r]

\* C13: a step of a request whose payload has no question raises out of answer
\* and leaves the contexts, the chat histories, the emit callbacks and
\* message_output alone (no context resolved, nothing appended, no agent run);
\* a request with a question and no chat_session_id is parsed into a message of
\* chat "default" and gets the context of conversation "default".
C13_QuestionRequired ==
    /\ [][\A r \in 1..Len(wg) :
            (wg[r].payload.question = None /\ WStep(r)) =>
                /\ wg'[r].pc = "raised" /\ wg'[r].exc # ""
                /\ wg'[r].context = 0 /\ wg'[r].emits = 0 /\ wg'[r].returned = <<>>
                /\ files' = files /\ ctxs' = ctxs /\ heap' = heap
                /\ message_output' = message_output]_vars
    /\ [](\A r \in 1..Len(wg) :
            (wg[r].payload.question # None /\ wg[r].payload.chat_session_id = None
                /\ wg[r].pc # "parse") =>
                /\ ~wg[r].incoming.is_none
                /\ wg[r].incoming.chat_id = PyStr("default")
                /\ wg[r].incoming.text = wg[r].payload.question
                /\ wg[r].context # 0 => ctxs[wg[r].context].keys = "default")

\* C13 witness: a request without a question was rejected, and one without a
\* chat_session_id ran its agent in conversation "default".
C13_Witness ==
    /\ \E r \in 1..Len(wg) : wg[r].payload.question = None /\ wg[r].pc = "raised"
    /\ \E r \in 1..Len(wg) :
           /\ wg[r].payload.question # None /\ wg[r].payload.chat_session_id = None
           /\ wg[r].pc = "done" /\ ctxs[wg[r].context].keys = "default"

-----------------------------------------------------------------------------
(* SpecRequests: one agent service with both transports mounted.  At most  *)
(* two webhook requests of Telegram arrive first, one after the other;     *)
(* once the widget endpoint is in use its requests run concurrently.       *)

NextRequests ==
    \/ Len(wg) = 0 /\ (tg.pc = "idle" => nreq < 2) /\ Next
    \/ tg.pc = "idle" /\ NextWidget

SpecRequests == Init /\ [][NextRequests]_vars

\* The number of messages in all chat histories.
LogTotal(fs) ==
    LET RECURSIVE Sum(_)
        Sum(i) == IF i = 0 THEN 0 ELSE Len(fs[i].msgs) + Sum(i - 1)
    IN  Sum(Len(fs))

\* Where a telegram_respond request and a widget request stand: before the
\* append, and at or after the start of the agent run.
TgBeforeAppend == tg.handler = "telegram_respond" /\ tg.pc \in {"parse", "context", "append"}
TgRunStarted == tg.handler = "telegram_respond" /\ (tg.pc = "run" \/ tg.ran)
WBeforeAppend(r) == wg[r].pc \in {"parse", "context", "append"}
WRunStarted(r) == wg[r].pc \in {"run", "return", "done"}

\* A step of the Telegram handler, or of widget request r, appends one message
\* to the chat histories exactly when it is the append_user_message of that
\* request, and no other step of a request changes the number of messages.
AppendsOnlyAtAppend ==
    /\ tg' # tg =>
           LogTotal(files') = LogTotal(files) +
               (IF tg.handler = "telegram_respond" /\ tg.pc = "append" /\ tg'.pc = "emit_func"
                THEN 1 ELSE 0)
    /\ \A r \in 1..Len(wg) : WStep(r) =>
           LogTotal(files') = LogTotal(files) +
               (IF wg[r].pc = "append" /\ wg'[r].pc = "emit_func" THEN 1 ELSE 0)

\* The order of the steps of a request, as a predicate of the state.
StepsOrdered ==
    /\ TgBeforeAppend => ~tg.ran /\ tg.emits = 0 /\ LogTotal(files) = LogTotal(tg.files0)
    /\ (tg.pc = "append" \/ TgRunStarted) => tg.context # 0
    /\ TgRunStarted =>
           /\ LogTotal(files) = LogTotal(tg.files0) + 1
           /\ UserEntries(tg.context, tg.incoming.text) # {}
           /\ heap[ctxs[tg.context].emit_funcs] = <<build_emit_func(tg.chat_id)>>
    /\ (tg.handler = "telegram_respond" /\ tg.pc # "idle" /\ tg.context = 0) =>
           ~tg.ran /\ tg.emits = 0 /\ LogTotal(files) = LogTotal(tg.files0)
    /\ \A r \in 1..Len(wg) :
           /\ WBeforeAppend(r) => wg[r].emits = 0
           /\ (wg[r].pc = "append" \/ WRunStarted(r)) => wg[r].context # 0
           /\ WRunStarted(r) =>
                  /\ UserEntries(wg[r].context, wg[r].incoming.text) # {}
                  /\ heap[ctxs[wg[r].context].emit_funcs]
                         = <<[transport |-> "widget", chat_id |-> None]>>
           /\ wg[r].context = 0 =>
                  wg[r].pc \in {"parse", "context", "raised"} /\ wg[r].emits = 0

\* C22: in telegram_respond and in the widget's answer the inbound text is
\* appended to the conversation's chat history exactly once, by the step that
\* follows the resolution of the context and precedes the registration of the
\* emission callback, which precedes the agent run; when parsing or the
\* resolution of the context fails nothing is appended and the agent never runs.
C22_StepsOrdered == [][AppendsOnlyAtAppend]_vars /\ [](StepsOrdered)

\* C22 witness: a widget request whose agent emitted has returned, after a
\* Telegram request appended its text to the history of its chat.
C22_Witness ==
    /\ \E i \in 1..Len(files) : files[i].keys \notin {"default", "abc"} /\ Len(files[i].msgs) > 0
    /\ \E r \in 1..Len(wg) : wg[r].pc = "done" /\ wg[r].emits > 0

-----------------------------------------------------------------------------
(* SpecTransport: the calls made on the Telegram transport outside a       *)
(* webhook request: the service is instantiated (__init__), instance_init  *)
(* runs, connect_telegram is called, a batch is sent with _send.           *)

ConfigTokens == {"", "CFG"}
ConnectTokens == {"", "T1", "T2"}

\* The provider's answers to setWebhook: response.ok, a response that is not
\* ok, or no response (requests raises).
WebhookAnswers == {"ok", "notok", "neterr"}

\* The batches given to _send, every block with the chat id set.
SendBatches ==
    {SetChatId(b, PyStr("7")) :
        b \in {<<AgentBlock("text")>>, <<AgentBlock("image")>>, <<AgentBlock("other")>>,
               <<AgentBlock("other"), AgentBlock("text")>>,
               <<AgentBlock("text"), AgentBlock("image")>>,
               <<AgentBlock("audio"), AgentBlock("other"), AgentBlock("video")>>,
               <<AgentBlock("text"), AgentBlock("other"), AgentBlock("text")>>}}

\* _instance_init: the setWebhook call made to api_root and whether it raises
\* (the response is not ok, or requests raises).
Telegram_register(tel, answer) ==
    [webhook |-> <<[api_root |-> tel.api_root, answer |-> answer]>>, raised |-> answer # "ok"]

\* An instance_init that lets the exceptions of _instance_init through.
Telegram_instance_init_fatal(tel, answer) ==
    IF Truthy(tel.bot_token)
    THEN LET t == IF tel.config_bot_token # "" THEN PyStr(tel.config_bot_token) ELSE tel.bot_token
             root == [tel EXCEPT !.api_root = ApiRoot(t)]
             r == Telegram_register(root, answer)
         IN  [telegram |-> root, webhook |-> r.webhook, raised |-> r.raised]
    ELSE [telegram |-> tel, webhook |-> <<>>, raised |-> FALSE]

\* instance_init: with a bot token, the API root is set again and the webhook is
\* registered; an exception of the registration is swallowed.
Telegram_instance_init(tel, answer) ==
    IF Truthy(tel.bot_token)
    THEN LET t == IF tel.config_bot_token # "" THEN PyStr(tel.config_bot_token) ELSE tel.bot_token
             root == [tel EXCEPT !.api_root = ApiRoot(t)]
             r == Telegram_register(root, answer)
         IN  [telegram |-> root, webhook |-> r.webhook, raised |-> FALSE]
    ELSE [telegram |-> tel, webhook |-> <<>>, raised |-> FALSE]

\* No call is running on the transport.
TpFree == tp.pc \in {"idle", "done"}

\* The service is instantiated: a new transport object reads the stored token.
TpConstruct(config_bot_token) ==
    /\ TpFree
    /\ telegram' = TelegramTransport_init(config_bot_token, StoredToken(store))
    /\ tp' = TpIdle
    /\ UNCHANGED <<files, caches, ctxs, heap, tg, sent, getFileCalls, store, wgVars, nreq, plugins>>

\* instance_init() is called on the transport.
TpInstanceInitCall ==
    /\ TpFree
    /\ tp' = [TpIdle EXCEPT !.op = "instance_init", !.pc = "init"]
    /\ UNCHANGED <<files, caches, ctxs, heap, tg, sent, getFileCalls, telegram, store, wgVars, nreq,
                   plugins>>

\* connect_telegram(bot_token): self.store.set("bot_token", {"token": bot_token})
\*                              self.bot_token = bot_token
TpConnect(bot_token) ==
    /\ TpFree
    /\ store' = KeyValueStore_set(store, "bot_token", PyStr(bot_token))
    /\ telegram' = [telegram EXCEPT !.bot_token = PyStr(bot_token)]
    /\ tp' = [TpIdle EXCEPT !.op = "connect_telegram", !.arg = bot_token, !.pc = "init"]
    /\ UNCHANGED <<files, caches, ctxs, heap, tg, sent, getFileCalls, wgVars, nreq, plugins>>

\* instance_init runs, called by the service or by connect_telegram:
\*     try: self.instance_init(); return "OK"
\*     except Exception as e: return f"Could not set webhook for bot. Exception: {e}"
TpInstanceInit(answer) ==
    /\ tp.pc = "init"
    /\ LET r == Telegram_instance_init(telegram, answer)
       IN  /\ telegram' = r.telegram
           /\ tp' = [tp EXCEPT
                       !.pc = "done",
                       !.webhook = r.webhook,
                       !.raised = r.raised /\ tp.op = "instance_init",
                       !.result = IF tp.op # "connect_telegram" THEN ""
                                  ELSE IF r.raised
                                  THEN "Could not set webhook for bot. Exception: " \o answer
                                  ELSE "OK"]
    /\ UNCHANGED <<files, caches, ctxs, heap, tg, sent, getFileCalls, store, wgVars, nreq, plugins>>

\* _send(blocks, metadata) is called on the transport; the record of the last
\* setWebhook calls is kept.
TpSend(blocks, outcomes) ==
    /\ TpFree
    /\ LET r == Telegram_send(blocks, outcomes)
       IN  tp' = [tp EXCEPT !.op = "_send", !.pc = "done", !.arg = "", !.result = "",
                            !.raised = r.exc # "", !.blocks = blocks, !.outcomes = outcomes,
                            !.calls = r.calls, !.exc = r.exc]
    /\ UNCHANGED <<files, caches, ctxs, heap, tg, sent, getFileCalls, telegram, store, wgVars, nreq,
                   plugins>>

NextTransport ==
    \/ \E config_bot_token \in ConfigTokens : TpConstruct(config_bot_token)
    \/ TpInstanceInitCall
    \/ \E bot_token \in ConnectTokens : TpConnect(bot_token)
    \/ \E answer \in WebhookAnswers : TpInstanceInit(answer)
    \/ \E blocks \in SendBatches : \E outcomes \in OutcomesOf(blocks) : TpSend(blocks, outcomes)

SpecTransport == Init /\ [][NextTransport]_vars

-----------------------------------------------------------------------------
(* Claims about the Telegram transport, checked under SpecTransport.       *)

\* _send has returned or raised.
SendDone == tp.op = "_send" /\ tp.pc = "done"

\* The elements of seq at the positions of the sendable blocks, in order.
RECURSIVE AtSendableFrom(_, _, _)
AtSendableFrom(seq, blocks, i) ==
    IF i > Len(blocks) THEN <<>>
    ELSE IF Sendable(blocks[i]) THEN <<seq[i]>> \o AtSendableFrom(seq, blocks, i + 1)
    ELSE AtSendableFrom(seq, blocks, i + 1)
AtSendable(seq, blocks) == AtSendableFrom(seq, blocks, 1)

\* The blocks the calls were made for.
BlocksOf(calls) == [i \in DOMAIN calls |-> calls[i].block]

\* C14: a block of a kind _send has no branch for is dropped without raising.
\* _send raises and calls the provider exactly as it does for the batch without
\* the unsupported blocks, and when the provider answers every call with
\* success, every sendable block of the batch, before or after an unsupported
\* one, is sent, in batch order.
C14_UnsupportedDropped ==
    SendDone =>
        LET r == Telegram_send(AtSendable(tp.blocks, tp.blocks),
                               AtSendable(tp.outcomes, tp.blocks))
        IN  /\ tp.exc = r.exc
            /\ tp.calls = r.calls
            /\ (\A i \in 1..Len(tp.blocks) : Sendable(tp.blocks[i]) => tp.outcomes[i] = "ok") =>
                   /\ tp.exc = ""
                   /\ BlocksOf(tp.calls) = AtSendable(tp.blocks, tp.blocks)

\* C14 witness: a batch with an unsupported block between two text blocks was
\* sent: both text blocks were delivered and nothing was raised.
C14_Witness ==
    /\ SendDone
    /\ Len(tp.blocks) = 3 /\ ~Sendable(tp.blocks[2])
    /\ tp.exc = ""
    /\ BlocksOf(tp.calls) = <<tp.blocks[1], tp.blocks[3]>>
    /\ \A c \in 1..Len(tp.calls) : tp.calls[c].answer = "ok"

\* C15: when the provider answers a call of _send with a non-success status,
\* _send raises and that call is the last one it made: the blocks before stay
\* sent and the blocks after are not sent.
C15_NonSuccessRaises ==
    SendDone =>
        \A c \in 1..Len(tp.calls) :
            tp.calls[c].answer = "non200" => (tp.exc # "" /\ c = Len(tp.calls))

\* The error strings of connect_telegram.
ConnectErrors == {"Could not set webhook for bot. Exception: " \o a : a \in WebhookAnswers}

\* C17: connect_telegram returns "OK" when the provider answers its setWebhook
\* call with success and an error string beginning "Could not set webhook for
\* bot" when the call fails (non-success response or exception).
C17_ConnectReportsRegistration ==
    (tp.op = "connect_telegram" /\ tp.pc = "done" /\ tp.webhook # <<>>) =>
        IF tp.webhook[1].answer = "ok"
        THEN tp.result = "OK"
        ELSE tp.result \in ConnectErrors

\* C18: connect_telegram(t) stores t under "bot_token" before the webhook
\* registration is attempted and the value stays whatever the registration
\* answers; only connect_telegram writes the store, so the latest token is the
\* one stored; a transport constructed with an empty configured token takes the
\* stored token as its bot token.
C18_TokenPersisted ==
    /\ [](tp.op = "connect_telegram" =>
            /\ store["bot_token"].is_set
            /\ store["bot_token"].token = PyStr(tp.arg)
            /\ tp.pc = "init" => tp.webhook = <<>>)
    /\ [][store' # store => \E t \in ConnectTokens : TpConnect(t)]_vars
    /\ [][(TpConstruct("") /\ store["bot_token"].is_set) =>
            /\ telegram'.bot_token = store["bot_token"].token
            /\ telegram'.api_root = ApiRoot(store["bot_token"].token)]_vars

\* C18 witness: a transport with no configured token was constructed after
\* connect_telegram("T2") replaced another stored token, and has "T2" as its
\* bot token.
C18_Witness ==
    /\ tp = TpIdle
    /\ telegram.config_bot_token = ""
    /\ telegram.bot_token = PyStr("T2")
    /\ store["bot_token"].token = PyStr("T2")
    /\ store["bot_token"].overwrote

\* The token instance_init registers the webhook with.
KnownToken(tel) ==
    IF tel.config_bot_token # "" THEN PyStr(tel.config_bot_token) ELSE tel.bot_token

\* C19: instance_init never raises, whatever the provider answers to
\* setWebhook; it makes no setWebhook call when the transport has no bot token;
\* and whatever the answer, it leaves the transport with its bot token and the
\* API root of that token, free for the next call.
C19_InstanceInitNonFatal ==
    /\ [](tp.op = "instance_init" => ~tp.raised)
    /\ []((tp.op \in {"instance_init", "connect_telegram"} /\ tp.pc = "done") =>
            /\ ~Truthy(telegram.bot_token) => tp.webhook = <<>>
            /\ Truthy(telegram.bot_token) =>
                   telegram.api_root = ApiRoot(KnownToken(telegram))
            /\ TpFree)
    /\ [][\A answer \in WebhookAnswers : TpInstanceInit(answer) =>
            /\ telegram'.bot_token = telegram.bot_token
            /\ telegram'.config_bot_token = telegram.config_bot_token
            /\ telegram' = Telegram_instance_init(telegram, "ok").telegram]_vars

\* C19 witness: a batch was sent and delivered on a transport whose
\* instance_init had got a non-success answer to setWebhook.
C19_Witness ==
    /\ SendDone
    /\ tp.webhook # <<>> /\ tp.webhook[1].answer = "notok"
    /\ tp.exc = ""
    /\ tp.calls # <<>> /\ tp.calls[1].answer = "ok"

\* C24: when connect_telegram(t) with a token t has finished, the setWebhook
\* request it made went to the API root built from t, and the API root the
\* transport keeps for its later provider calls is the one built from t,
\* whatever bot_token the transport was configured with.
C24_ConnectedTokenUsed ==
    (tp.op = "connect_telegram" /\ tp.pc = "done" /\ tp.arg # "") =>
        /\ telegram.api_root = ApiRoot(PyStr(tp.arg))
        /\ \A i \in 1..Len(tp.webhook) : tp.webhook[i].api_root = ApiRoot(PyStr(tp.arg))

-----------------------------------------------------------------------------
(* SpecPlugin: plugin classes are instantiated and the objects used.       *)

\* cls(): TypeError when the class has abstract methods.
PluginInstantiate(cls) ==
    /\ Len(plugins.objs) < MaxPlugins
    /\ LET raised == AbstractMethods(cls) # {}
       IN  plugins' =
               [objs |-> IF raised THEN plugins.objs ELSE Append(plugins.objs, cls),
                last |-> [NoPluginOp EXCEPT !.op = "instantiate", !.cls = cls,
                                            !.raised = raised]]
    /\ UNCHANGED <<files, caches, ctxs, heap, tgVars, wgVars, nreq>>

\* plugin.run(PluginRequest(data="")): AttributeError when the object has no run.
PluginRun(i) ==
    /\ plugins' =
           [plugins EXCEPT !.last =
               [NoPluginOp EXCEPT !.op = "run", !.cls = plugins.objs[i],
                                  !.raised = "run" \notin Attributes(plugins.objs[i])]]
    /\ UNCHANGED <<files, caches, ctxs, heap, tgVars, wgVars, nreq>>

\* hasattr(plugin, name)
PluginHasAttr(i, name) ==
    /\ plugins' =
           [plugins EXCEPT !.last =
               [NoPluginOp EXCEPT !.op = "hasattr", !.cls = plugins.objs[i], !.name = name,
                                  !.value = name \in Attributes(plugins.objs[i])]]
    /\ UNCHANGED <<files, caches, ctxs, heap, tgVars, wgVars, nreq>>

NextPlugin ==
    \/ \E cls \in PluginClasses : PluginInstantiate(cls)
    \/ \E i \in 1..Len(plugins.objs) : PluginRun(i)
    \/ \E i \in 1..Len(plugins.objs), name \in PluginMethods : PluginHasAttr(i, name)

SpecPlugin == Init /\ [][NextPlugin]_vars

\* The classes that do not implement run.
NotConcrete == {"PluginService", "CorpusImporter", "BadPlugin"}

====
